---- MODULE Spec2Model ----
(***************************************************************************)
(* Model of src/app.py (PlaylistPilot): the Fetch and Download handlers of *)
(* the page, the batch generator download_playlist_multisource and the     *)
(* candidate loop download_track_multisource.                              *)
(*                                                                         *)
(* Text is modelled as a sequence of tokens (one-character strings, or a   *)
(* longer literal of the source kept as one token), so that clean_filename *)
(* really removes characters and two titles can collide after cleaning.    *)
(* The external yt-dlp process is the environment: its exit status and the *)
(* file it leaves under the output template are chosen nondeterministically*)
(* Operations of the program on its own temporary directory (os.remove,    *)
(* shutil.rmtree) are taken to succeed.                                    *)
(***************************************************************************)
EXTENDS Integers, Sequences, FiniteSets, TLC

(* ------------------------------ bounds -------------------------------- *)
\* longest playlist the metadata provider returns
MaxTracks == 2
\* longest text handed to clean_filename on its own
MaxLen == 3

(* ------------------------- program constants -------------------------- *)
\* os.path.getsize(downloaded_file) > 50000
SizeFloor == 50000
\* failed[:5]
FailedShown == 5

\* Python's None for a string-valued name; an absent file, list or text is
\* the empty sequence
None == "None"
NoFile == << >>

\* possible_extensions = ['m4a', 'mp3', 'webm', 'opus']
possible_extensions == <<"m4a", "mp3", "webm", "opus">>

\* sizes of a file the external process may leave: at the floor, above it
FileSizes == {SizeFloor, SizeFloor + 1}

\* containers the external process may leave: the requested one, or the one
\* of the best audio stream when that is not available
WriteExts == {"m4a", "webm"}

\* the characters clean_filename removes: [<>:"/\\|?*]
IllegalChars == {"<", ">", ":", "\"", "/", "\\", "|", "?", "*"}

(* --------------------------- pure functions --------------------------- *)
\* variant: re.sub(..., count=1), only the first match is removed
clean_filename_first_only(text) ==
    LET hits == { i \in 1..Len(text) : text[i] \in IllegalChars }
    IN  IF hits = {} THEN text
        ELSE LET i == CHOOSE h \in hits : \A g \in hits : h <= g
             IN  SubSeq(text, 1, i - 1) \o SubSeq(text, i + 1, Len(text))

\* re.sub(r'[<>:"/\\|?*]', '', text)
clean_filename(text) ==
    LET keep(c) == c \notin IllegalChars
    IN  SelectSeq(text, keep)

\* f"{artist_name} - {track_name}"
ArtistDashName(track) == track.artists \o <<" ", "-", " ">> \o track.name

\* safe_filename = clean_filename(f"{artist_name} - {track_name}")
safe_filename(track) == clean_filename(ArtistDashName(track))

RECURSIVE FirstExisting(_, _, _, _)
FirstExisting(files, base_filename, extensions, i) ==
    IF i > Len(extensions) THEN NoFile
    ELSE IF <<base_filename, extensions[i]>> \in files
         THEN <<base_filename, extensions[i]>>
         ELSE FirstExisting(files, base_filename, extensions, i + 1)

\* variant: only the first extension of the list is looked up
file_exists_first_ext(files, base_filename, extensions) ==
    FirstExisting(files, base_filename, SubSeq(extensions, 1, 1), 1)

\* file_exists_in_dir: the first extension, in list order, whose file is
\* present; NoFile when there is none (the code's (False, None))
file_exists_in_dir(files, base_filename, extensions) ==
    FirstExisting(files, base_filename, extensions, 1)

\* the five search-based candidates of lines 471-497
SearchSources(a, n) ==
    << [name |-> "YouTube Music (Official Audio)",
        url |-> <<"ytsearch1:">> \o a \o <<" - ">> \o n \o <<" official audio">>,
        extra_args |-> <<>>],
       [name |-> "YouTube (Topic Channel)",
        url |-> <<"ytsearch1:">> \o a \o <<" - ">> \o n \o <<" topic">>,
        extra_args |-> <<>>],
       [name |-> "YouTube (Provided to YouTube)",
        url |-> <<"ytsearch1:">> \o a \o <<" ">> \o n \o <<" provided to youtube">>,
        extra_args |-> <<>>],
       [name |-> "YouTube (Audio)",
        url |-> <<"ytsearch1:">> \o a \o <<" ">> \o n \o <<" audio">>,
        extra_args |-> <<>>],
       [name |-> "Soundcloud",
        url |-> <<"scsearch1:">> \o a \o <<" ">> \o n,
        extra_args |-> <<"--extractor-args", "soundcloud:client_id=">>] >>

\* the direct candidate of a YouTube record, lines 463-468
DirectSource(track) ==
    IF track.source = "youtube" /\ track.youtube_url # <<>>
    THEN << [name |-> "YouTube (Direct)",
             url |-> track.youtube_url,
             extra_args |-> <<>>] >>
    ELSE << >>

\* variant: the direct URL is appended after the search-based candidates
SourcesDirectLast(track) ==
    SearchSources(track.artists, track.name) \o DirectSource(track)

\* variant: the SoundCloud search comes before the YouTube searches
SourcesSoundcloudFirst(track) ==
    LET search == SearchSources(track.artists, track.name)
    IN  DirectSource(track) \o <<search[5]>> \o SubSeq(search, 1, 4)

\* the candidate list built by download_track_multisource
Sources(track) ==
    DirectSource(track) \o SearchSources(track.artists, track.name)

\* variant: a file of exactly the floor size is accepted
SizeAcceptedAtFloor(size) == size >= SizeFloor

\* os.path.getsize(downloaded_file) > 50000
SizeAccepted(size) == size > SizeFloor

(* ------------------------------ inputs -------------------------------- *)
\* URLs the user may type, as sequences of the substrings the code looks for
Urls ==
    { << " " >>,
      << "https://", "example.org", "/", "x" >>,
      << "https://open.", "spotify.com", "/", "playlist", "/", "p1" >>,
      << "https://open.", "spotify.com", "/", "track", "/", "t1" >>,
      << "https://music.", "youtube.com", "/", "playlist", "?", "list=", "l1" >>,
      << "https://www.", "youtube.com", "/", "watch?v=", "v1" >> }

Contains(url, part) == \E i \in 1..Len(url) : url[i] = part

\* url.strip()
strip(url) ==
    LET notSpace(c) == c # " "
    IN  SelectSeq(url, notSpace)

\* detect_platform(url)
detect_platform(url) ==
    LET u == strip(url)
    IN  IF Contains(u, "spotify.com") /\ Contains(u, "playlist") THEN "spotify_playlist"
        ELSE IF Contains(u, "spotify.com") /\ Contains(u, "track") THEN "spotify_track"
        ELSE IF Contains(u, "youtube.com") \/ Contains(u, "youtu.be")
             THEN IF Contains(u, "playlist") \/ Contains(u, "list=")
                  THEN "youtube_playlist"
                  ELSE IF Contains(u, "watch?v=") \/ Contains(u, "youtu.be/")
                       THEN "youtube_track"
                       ELSE None
             ELSE None

\* track objects of the Spotify Web API (the fields the code reads)
SpotifyTrackObjects ==
    { [null |-> FALSE, name |-> <<"a">>, artists |-> << <<"x">>, <<"z">> >>,
       images |-> << <<"c">> >>],
      [null |-> FALSE, name |-> <<"a", "?">>, artists |-> << <<"x">>, <<"z">> >>,
       images |-> << >>] }

\* item.get("track") of an unavailable track is null
NullTrack == [null |-> TRUE, name |-> << >>, artists |-> << >>, images |-> << >>]

\* the "track" member of an item of a playlist
SpotifyItems == SpotifyTrackObjects \cup {NullTrack}

SeqsUpTo(S, n) == UNION { [1..k -> S] : k \in 0..n }

\* playlist resources the API may return
SpotifyPlaylists ==
    { [name |-> <<"m", "i", "x">>, items |-> it] : it \in SeqsUpTo(SpotifyItems, MaxTracks) }

RECURSIVE JoinComma(_)
\* ", ".join(names)
JoinComma(names) ==
    IF names = << >> THEN << >>
    ELSE IF Len(names) = 1 THEN names[1]
    ELSE names[1] \o <<",", " ">> \o JoinComma(Tail(names))

\* the track_info dict built by extract_tracks_from_spotify and
\* extract_single_track_info (fields read by the download phase)
SpotifyTrackInfo(track) ==
    [name |-> track.name,
     artists |-> JoinComma(track.artists),
     cover_url |-> IF track.images # << >> THEN track.images[1] ELSE << >>,
     source |-> "spotify",
     youtube_url |-> << >>]

RECURSIVE extract_tracks_from_spotify(_)
\* extract_tracks_from_spotify over the items of playlist_data
extract_tracks_from_spotify(items) ==
    IF items = << >> THEN << >>
    ELSE IF Head(items).null
         THEN extract_tracks_from_spotify(Tail(items))
         ELSE <<SpotifyTrackInfo(Head(items))>> \o extract_tracks_from_spotify(Tail(items))

\* track_info dicts built from the yt-dlp JSON of a YouTube video
YoutubeTrackInfos ==
    { [name |-> <<"b">>, artists |-> <<"y">>, cover_url |-> << >>,
       source |-> "youtube",
       youtube_url |-> <<"https://www.youtube.com/watch?v=", "b">>],
      [name |-> <<"c">>, artists |-> <<"y">>, cover_url |-> <<"t">>,
       source |-> "youtube",
       youtube_url |-> <<"https://www.youtube.com/watch?v=", "c">>] }

\* fetch_youtube_playlist: a non-empty list of videos, or None (here << >>)
YoutubePlaylistResults == SeqsUpTo(YoutubeTrackInfos, MaxTracks)

\* fetch_youtube_track: the video's info with youtube_url = url, or the
\* basic record built from the URL when every method failed
YoutubeTrackResults(url) ==
    { [t EXCEPT !.youtube_url = url] : t \in YoutubeTrackInfos }
    \cup { [name |-> <<"YouTube Video ">> \o <<url[Len(url)]>>,
            artists |-> <<"YouTube">>,
            cover_url |-> <<"https://img.youtube.com/vi/">> \o <<url[Len(url)]>>,
            source |-> "youtube",
            youtube_url |-> url] }

\* HTTP statuses raise_for_status() may raise on
HttpErrors == {401, 404, 429}
\* an exception that is not an HTTPError
OtherException == 0

(* ------------------------------- state -------------------------------- *)
VARIABLES
    playlist_tracks,   \* st.session_state.playlist_tracks
    playlist_name,     \* st.session_state.playlist_name
    content_type,      \* st.session_state.content_type
    log_area,          \* the lines the page shows in log_area
    add_metadata,      \* the "Add album covers & metadata" checkbox of the run
    ui,                \* the last st.error / st.warning / st.success shown
    pc,                \* position of the Download handler
    temp_dir,          \* "none", "exists" or "removed": the mkdtemp directory
    dir,               \* files of temp_dir: <<base, ext>> -> size
    idx,               \* enumerate index of download_playlist_multisource
    downloaded,        \* its counters
    skipped,
    failed,
    sources,           \* download_track_multisource: the candidate list
    cand,              \* index of the candidate the loop is at
    calls,             \* names of the candidates subprocess.run was called for
    last,              \* what the last loop iteration did
    result,            \* the tuple download_track_multisource returned
    tagged,            \* files add_metadata_to_file was called on in this run, in order
    artifact,          \* what the page offers for download
    tag_call,          \* the tagging step of the generator's last iteration
    status_code,       \* e.response.status_code of the HTTPError this run caught, 0 if none
    sanitizer,         \* clean_filename applied to a text on its own (SanitizerSpec)
    summary,           \* the generator's closing lines on their own (SummarySpec)
    extraction         \* extract_tracks_from_spotify on its own (ExtractSpec)

session == <<playlist_tracks, playlist_name, content_type>>
batch == <<idx, downloaded, skipped, failed>>
loop == <<sources, cand, calls, last, result>>
\* the state of the page and of its handlers
page == <<playlist_tracks, playlist_name, content_type, log_area, add_metadata, ui, pc, temp_dir,
          dir, idx, downloaded, skipped, failed, sources, cand, calls, last,
          result, tagged, artifact, tag_call, status_code>>
vars == <<page, sanitizer, summary, extraction>>

NoLast == [src |-> None, outcome |-> None, found |-> NoFile, size |-> 0,
           slept |-> FALSE, at |-> 0]
NoResult == [success |-> FALSE, file |-> NoFile, source |-> None]
NoArtifact == [kind |-> None, entries |-> << >>, name |-> << >>]
\* the iteration has not called add_metadata_to_file; cover is None when
\* download_cover_art was not called, else "bytes" or "failed"
NoTagCall == [called |-> FALSE, file |-> NoFile, cover |-> None, returned |-> TRUE]
\* clean_filename has not been given a text
NoText == [text |-> << >>, cleaned |-> << >>, again |-> << >>, step |-> 0]
\* extract_tracks_from_spotify has not been given a playlist
NoExtraction == [items |-> << >>, tracks |-> << >>, step |-> 0]
\* the closing lines have not been asked for
NoSummary == [downloaded |-> 0, skipped |-> 0, failed |-> << >>, lines |-> << >>, step |-> 0]

\* the session state block at the top of the script, before any click
PageInit ==
    /\ playlist_tracks = << >>
    /\ playlist_name = << >>
    /\ content_type = << >>
    /\ log_area = << >>
    /\ add_metadata = TRUE
    /\ ui = None
    /\ pc = "idle"
    /\ temp_dir = "none"
    /\ dir = << >>
    /\ idx = 0
    /\ downloaded = 0
    /\ skipped = 0
    /\ failed = << >>
    /\ sources = << >>
    /\ cand = 0
    /\ calls = << >>
    /\ last = NoLast
    /\ result = NoResult
    /\ tagged = << >>
    /\ tag_call = NoTagCall
    /\ artifact = NoArtifact
    /\ status_code = 0

Init ==
    /\ PageInit
    /\ sanitizer = NoText
    /\ summary = NoSummary
    /\ extraction = NoExtraction

(* --------------------------- Fetch handler ---------------------------- *)
\* Every click reruns the script from the top: when check_ytdlp() fails the
\* page shows the installation hint and st.stop() ends the run before any
\* handler (ytdlp_installed below).
\* a click reruns the script: log_area = st.empty() is blank again and the
\* locals of a finished run are gone
RerunLocals ==
    /\ log_area' = << >>
    /\ temp_dir' = "none"
    /\ dir' = << >>
    /\ idx' = 0
    /\ downloaded' = 0
    /\ skipped' = 0
    /\ failed' = << >>
    /\ sources' = << >>
    /\ cand' = 0
    /\ calls' = << >>
    /\ last' = NoLast
    /\ result' = NoResult
    /\ tagged' = << >>
    /\ tag_call' = NoTagCall
    /\ artifact' = NoArtifact

\* variant: the except clauses reset the session state
FetchRaisesClearsSession(status) ==
    /\ ui' = IF status = 401 THEN "auth_error"
             ELSE IF status \in HttpErrors THEN "api_error"
             ELSE "error"
    /\ status_code' = IF status \in HttpErrors THEN status ELSE 0
    /\ playlist_tracks' = << >>
    /\ playlist_name' = << >>
    /\ content_type' = << >>

\* variant: no branch for status 401, every HTTPError is an "API Error"
FetchRaisesNoAuthCase(status) ==
    /\ ui' = IF status \in HttpErrors THEN "api_error" ELSE "error"
    /\ status_code' = IF status \in HttpErrors THEN status ELSE 0
    /\ UNCHANGED session

\* the Spotify branch raised requests.exceptions.HTTPError or another exception
FetchRaises(status) ==
    /\ ui' = IF status = 401 THEN "auth_error"
             ELSE IF status \in HttpErrors THEN "api_error"
             ELSE "error"
    /\ status_code' = IF status \in HttpErrors THEN status ELSE 0
    /\ UNCHANGED session

FetchStores(tracks, name, ctype, shown) ==
    /\ playlist_tracks' = tracks
    /\ playlist_name' = name
    /\ content_type' = ctype
    /\ ui' = shown
    /\ status_code' = 0

\* if fetch_btn: ...
FetchBtn ==
    /\ pc = "idle"
    /\ \E url \in Urls, ytdlp_installed \in BOOLEAN :
         LET platform == detect_platform(url)
         IN  IF ~ytdlp_installed
             THEN ui' = "ytdlp_missing" /\ status_code' = 0 /\ UNCHANGED session
             ELSE IF strip(url) = << >>
             THEN ui' = "enter_url" /\ status_code' = 0 /\ UNCHANGED session
             ELSE IF platform = None
             THEN ui' = "unsupported_url" /\ status_code' = 0 /\ UNCHANGED session
             ELSE IF platform = "spotify_playlist"
             THEN \/ \E status \in HttpErrors \cup {OtherException} : FetchRaises(status)
                  \/ \E data \in SpotifyPlaylists :
                       LET tracks == extract_tracks_from_spotify(data.items)
                       IN  FetchStores(tracks, data.name, <<"playlist">>,
                                       IF tracks # << >> THEN "found" ELSE "no_tracks")
             ELSE IF platform = "spotify_track"
             THEN \/ \E status \in HttpErrors \cup {OtherException} : FetchRaises(status)
                  \/ \E data \in SpotifyTrackObjects :
                       LET info == SpotifyTrackInfo(data)
                       IN  FetchStores(<<info>>, ArtistDashName(info), <<"track">>, "found")
             ELSE IF platform = "youtube_playlist"
             THEN \E tracks \in YoutubePlaylistResults :
                       IF tracks # << >>
                       THEN FetchStores(tracks, <<"YouTube Playlist">>, <<"playlist">>, "found")
                       ELSE ui' = "youtube_failed" /\ status_code' = 0 /\ UNCHANGED session
             ELSE \E info \in YoutubeTrackResults(strip(url)) :
                       FetchStores(<<info>>, info.name, <<"track">>, "found")
    /\ RerunLocals
    /\ UNCHANGED <<add_metadata, pc, sanitizer, summary, extraction>>

(* -------------------------- Download handler -------------------------- *)
\* a line handed to append_log
Ev(ev, a, b, c, name, info) ==
    [ev |-> ev, a |-> a, b |-> b, c |-> c, name |-> name, info |-> info]

\* logs[-50:]
LogShown == 50

LastN(seq, n) == IF Len(seq) <= n THEN seq ELSE SubSeq(seq, Len(seq) - n + 1, Len(seq))

\* append_log(msg): the page shows the last 50 lines of st.session_state.logs,
\* which the Download handler empties before its first line
append_log(area, msg) == LastN(Append(area, msg), LogShown)

RECURSIVE append_logs(_, _)
\* for output in download_playlist_multisource(...): append_log(output)
append_logs(area, msgs) ==
    IF msgs = << >> THEN area
    ELSE append_logs(append_log(area, Head(msgs)), Tail(msgs))

\* if download_btn: the two guards, then logs = [], mkdtemp()
DownloadBtn ==
    /\ pc = "idle"
    /\ \E url \in Urls, meta \in BOOLEAN, ytdlp_installed \in BOOLEAN :
         IF ~ytdlp_installed
         THEN /\ ui' = "ytdlp_missing"
              /\ RerunLocals
              /\ UNCHANGED <<add_metadata, pc>>
         ELSE IF strip(url) = << >>
         THEN /\ ui' = "enter_url_first"
              /\ RerunLocals
              /\ UNCHANGED <<add_metadata, pc>>
         ELSE IF playlist_tracks = << >>
         THEN /\ ui' = "fetch_first"
              /\ RerunLocals
              /\ UNCHANGED <<add_metadata, pc>>
         ELSE /\ log_area' = append_log(append_log(<< >>,
                                 Ev("start", 0, 0, 0, << >>, None)),
                                 Ev("downloading", 0, 0, 0, << >>, None))
              /\ add_metadata' = meta
              /\ ui' = None
              /\ temp_dir' = "exists"
              /\ dir' = << >>
              /\ pc' = "gen"
              /\ idx' = 0
              /\ downloaded' = 0
              /\ skipped' = 0
              /\ failed' = << >>
              /\ sources' = << >>
              /\ cand' = 0
              /\ calls' = << >>
              /\ last' = NoLast
              /\ result' = NoResult
              /\ tagged' = << >>
              /\ tag_call' = NoTagCall
              /\ artifact' = NoArtifact
    /\ status_code' = 0
    /\ UNCHANGED <<session, sanitizer, summary, extraction>>

(* ---------------------- download_track_multisource -------------------- *)
AlreadyDownloaded == "Already downloaded"
AllSourcesFailed == "All sources failed"

\* the generator yields "Processing" and calls download_track_multisource,
\* which returns at once when the file is already there
StartTrack ==
    /\ pc = "gen"
    /\ idx < Len(playlist_tracks)
    /\ LET track == playlist_tracks[idx + 1]
           existing_file == file_exists_in_dir(DOMAIN dir, safe_filename(track),
                                               possible_extensions)
       IN  /\ idx' = idx + 1
           /\ log_area' = append_log(log_area,
                                     Ev("processing", idx + 1, Len(playlist_tracks), 0,
                                        ArtistDashName(track), None))
           /\ calls' = << >>
           /\ last' = NoLast
           /\ tag_call' = NoTagCall
           /\ IF existing_file # NoFile
              THEN /\ result' = [success |-> TRUE, file |-> existing_file,
                                 source |-> AlreadyDownloaded]
                   /\ sources' = << >>
                   /\ cand' = 0
                   /\ pc' = "returned"
              ELSE /\ result' = NoResult
                   /\ sources' = Sources(track)
                   /\ cand' = 1
                   /\ pc' = "attempt"
    /\ UNCHANGED <<session, add_metadata, ui, temp_dir, dir, downloaded, skipped,
                   failed, tagged, artifact, status_code, sanitizer, summary, extraction>>

\* how a subprocess.run call can end
Outcomes == {"exit0", "nonzero", "timeout", "exception"}

\* what the process leaves under the output template: nothing, or one file
\* <safe_filename>.<ext> of some size (an existing one is overwritten)
Writes ==
    {NoFile} \cup
    { <<ext, size>> : ext \in WriteExts, size \in FileSizes }

WriteFile(files, base, write) ==
    IF write = NoFile THEN files
    ELSE (<<base, write[1]>> :> write[2]) @@ files

RemoveFile(files, file) ==
    [f \in (DOMAIN files) \ {file} |-> files[f]]

\* subprocess.run raised (TimeoutExpired, or another exception)
Raised(outcome) == outcome \in {"timeout", "exception"}

\* variant: no except clause for subprocess.TimeoutExpired
CaughtButTimeout(outcome) == outcome \in {"exception"}

\* except subprocess.TimeoutExpired: continue / except Exception: continue
Caught(outcome) == outcome \in {"timeout", "exception"}

\* variant: the loop gives up before its last candidate
LoopStepStopsEarly(accepted, c, srcs) ==
    IF accepted THEN "return"
    ELSE IF c >= Len(srcs) - 1 THEN "exhausted"
    ELSE "next"

\* variant: an accepted file does not end the loop before the last candidate
LoopStepKeepsTrying(accepted, c, srcs) ==
    IF c = Len(srcs) THEN (IF accepted THEN "return" ELSE "exhausted")
    ELSE "next"

\* what an iteration of the loop at candidate c ends with: the return of
\* line 550, the return after the loop (line 563), or the next candidate
LoopStep(accepted, c, srcs) ==
    IF accepted THEN "return"
    ELSE IF c = Len(srcs) THEN "exhausted"
    ELSE "next"

\* variant: rmtree only at the end of the try block, no finally clause
OnExceptionSkipsFinally == "idle"

\* the handler's except and finally clauses take over
OnException == "cleanup"

\* one iteration of "for source in sources"
Attempt ==
    /\ pc = "attempt"
    /\ \E outcome \in Outcomes, write \in Writes :
         LET base == safe_filename(playlist_tracks[idx])
             written == WriteFile(dir, base, write)
             found == IF outcome = "exit0"
                      THEN file_exists_in_dir(DOMAIN written, base, possible_extensions)
                      ELSE NoFile
             size == IF found # NoFile THEN written[found] ELSE 0
             accepted == found # NoFile /\ SizeAccepted(size)
             removed == found # NoFile /\ ~accepted
         IN  /\ calls' = Append(calls, sources[cand].name)
             /\ dir' = IF removed THEN RemoveFile(written, found) ELSE written
             /\ last' = [src |-> sources[cand].name, outcome |-> outcome,
                         found |-> found, size |-> size,
                         slept |-> ~Raised(outcome) /\ ~accepted, at |-> cand]
             /\ IF Raised(outcome) /\ ~Caught(outcome)
                THEN /\ pc' = OnException
                     /\ ui' = "download_error"
                     /\ log_area' = append_log(log_area, Ev("error", 0, 0, 0, << >>, outcome))
                     /\ UNCHANGED <<cand, result>>
                ELSE IF LoopStep(accepted, cand, sources) = "return"
                THEN /\ result' = [success |-> TRUE, file |-> found,
                                   source |-> sources[cand].name]
                     /\ pc' = "returned"
                     /\ UNCHANGED <<cand, ui, log_area>>
                ELSE IF LoopStep(accepted, cand, sources) = "exhausted"
                THEN /\ result' = [success |-> FALSE, file |-> NoFile,
                                   source |-> AllSourcesFailed]
                     /\ pc' = "returned"
                     /\ UNCHANGED <<cand, ui, log_area>>
                ELSE /\ cand' = cand + 1
                     /\ UNCHANGED <<pc, result, ui, log_area>>
    /\ UNCHANGED <<session, add_metadata, temp_dir, batch, sources, tagged, artifact,
                   tag_call, status_code, sanitizer, summary, extraction>>

(* -------------------- download_playlist_multisource ------------------- *)
\* which branch of "if success and file_path: ... else: ..." a result takes
Branch(res) ==
    IF res.success /\ res.file # NoFile
    THEN IF res.source = AlreadyDownloaded THEN "skipped" ELSE "downloaded"
    ELSE "failed"

\* variant: a skipped track is not counted
CountedSkipLost(branch, d, s, f, label) ==
    [downloaded |-> IF branch = "downloaded" THEN d + 1 ELSE d,
     skipped    |-> s,
     failed     |-> IF branch = "failed" THEN Append(f, label) ELSE f]

\* variant: a failed track is not recorded in the failure list
CountedFailedLost(branch, d, s, f, label) ==
    [downloaded |-> IF branch = "downloaded" THEN d + 1 ELSE d,
     skipped    |-> IF branch = "skipped" THEN s + 1 ELSE s,
     failed     |-> f]

\* skipped += 1 / downloaded += 1 / failed.append(...)
Counted(branch, d, s, f, label) ==
    [downloaded |-> IF branch = "downloaded" THEN d + 1 ELSE d,
     skipped    |-> IF branch = "skipped" THEN s + 1 ELSE s,
     failed     |-> IF branch = "failed" THEN Append(f, label) ELSE f]

\* variant: a skipped track is counted but no line is yielded for it
OutcomeLineSilentSkip(branch, track, res) ==
    IF branch = "skipped" THEN << >>
    ELSE IF branch = "downloaded"
    THEN << Ev("downloaded", 0, 0, 0, track.name, res.source) >>
    ELSE << Ev("failed", 0, 0, 0, track.name, res.source) >>

\* the line yielded for the outcome of a track: "Skipped (already exists)",
\* "Downloaded from <source>" or "Failed: <name> - <source>"
OutcomeLine(branch, track, res) ==
    IF branch = "skipped"
    THEN << Ev("skipped", 0, 0, 0, track.name, None) >>
    ELSE IF branch = "downloaded"
    THEN << Ev("downloaded", 0, 0, 0, track.name, res.source) >>
    ELSE << Ev("failed", 0, 0, 0, track.name, res.source) >>

\* variant: the tagging block is not inside the else of the cache-hit test
TaggingAlsoSkipped(branch, meta) == branch \in {"downloaded", "skipped"} /\ meta

\* the tagging block is reached: the track was downloaded by a candidate
\* (not "Already downloaded", not failed) and add_metadata is set
Tagging(branch, meta) == branch = "downloaded" /\ meta

\* download_cover_art: None when the record has no cover_url (not called);
\* the content when requests.get succeeded, None when anything was raised
download_cover_art(cover_url, cover_ok) ==
    IF cover_url = << >> THEN None
    ELSE IF cover_ok THEN "bytes" ELSE "failed"

\* add_metadata_to_file: False when MP4 / MP3 / save raised; a file that is
\* neither .m4a nor .mp3 is left alone and the result is True
add_metadata_to_file(file, raises) ==
    IF file[2] \in {"m4a", "mp3"} THEN ~raises ELSE TRUE

\* variant: nothing is yielded when add_metadata_to_file returned False
MetadataLinesNoWarning(tag_ok) ==
    << Ev("tagging", 0, 0, 0, << >>, None) >>
    \o (IF tag_ok THEN << Ev("metadata_added", 0, 0, 0, << >>, None) >> ELSE << >>)

\* the lines yielded for a downloaded track when add_metadata is set
MetadataLines(tag_ok) ==
    << Ev("tagging", 0, 0, 0, << >>, None),
       Ev(IF tag_ok THEN "metadata_added" ELSE "metadata_failed", 0, 0, 0, << >>, None) >>

\* download_track_multisource has returned and its tuple has been used:
\* nothing of that call is left
ReturnedLocals ==
    /\ sources' = << >>
    /\ cand' = 0
    /\ calls' = << >>
    /\ last' = NoLast
    /\ result' = NoResult

\* the body of the generator's loop after download_track_multisource returned
TrackOutcome ==
    /\ pc = "returned"
    /\ \E raises \in BOOLEAN, cover_ok \in BOOLEAN :
         LET track == playlist_tracks[idx]
             branch == Branch(result)
             tagging == Tagging(branch, add_metadata)
             cover == IF tagging THEN download_cover_art(track.cover_url, cover_ok) ELSE None
             tag_ok == IF tagging THEN add_metadata_to_file(result.file, raises) ELSE TRUE
             counts == Counted(branch, downloaded, skipped, failed, ArtistDashName(track))
             line == OutcomeLine(branch, track, result)
                     \o (IF tagging THEN MetadataLines(tag_ok) ELSE << >>)
         IN  /\ tagged' = IF tagging THEN Append(tagged, result.file) ELSE tagged
             /\ tag_call' = IF tagging
                            THEN [called |-> TRUE, file |-> result.file,
                                  cover |-> cover, returned |-> tag_ok]
                            ELSE NoTagCall
             /\ downloaded' = counts.downloaded
             /\ skipped' = counts.skipped
             /\ failed' = counts.failed
             /\ log_area' = append_logs(log_area, line \o
                              << Ev("progress", counts.downloaded, Len(playlist_tracks),
                                    counts.skipped, << >>, None) >>)
    /\ pc' = "gen"
    /\ ReturnedLocals
    /\ UNCHANGED <<session, add_metadata, ui, temp_dir, dir, idx, artifact,
                   status_code, sanitizer, summary, extraction>>

\* variant: failed[-5:], the last five
FirstNFromEnd(seq, n) == SubSeq(seq, IF Len(seq) < n THEN 1 ELSE Len(seq) - n + 1, Len(seq))

\* failed[:5]
FirstN(seq, n) == SubSeq(seq, 1, IF Len(seq) < n THEN Len(seq) ELSE n)

\* the yields after the loop: "Complete!", then "Failed tracks (k): ..." if
\* failed, then "... and k more" if len(failed) > 5
SummaryLines(d, total, s, f) ==
    << Ev("complete", d, total, s, << >>, None) >>
    \o (IF f # << >>
        THEN << Ev("failed_tracks", Len(f), 0, 0, FirstN(f, FailedShown), None) >>
        ELSE << >>)
    \o (IF Len(f) > FailedShown
        THEN << Ev("more", Len(f) - FailedShown, 0, 0, << >>, None) >>
        ELSE << >>)

\* the lines after the loop: "Complete!", the failed tracks, "... and k more"
Summary ==
    /\ pc = "gen"
    /\ idx = Len(playlist_tracks)
    /\ log_area' = append_logs(log_area,
                  SummaryLines(downloaded, Len(playlist_tracks), skipped, failed))
    /\ pc' = "package"
    /\ tag_call' = NoTagCall
    /\ UNCHANGED <<session, add_metadata, ui, temp_dir, dir, batch, loop, tagged, artifact,
                   status_code, sanitizer, summary, extraction>>

(* ------------------------------ packaging ----------------------------- *)
\* the enumerations of a finite set, in any order
Orders(S) ==
    { o \in [1..Cardinality(S) -> S] : \A i, j \in 1..Cardinality(S) : o[i] = o[j] => i = j }

\* Path(temp_dir).glob("*.ext"): the files with that extension, in the order
\* the file system lists them
Glob(files, ext) == Orders({ f \in files : f[2] = ext })

RECURSIVE GlobAll(_, _)
\* downloaded_files: the globs of the extensions from the i-th on, concatenated
GlobAll(files, i) ==
    IF i > Len(possible_extensions) THEN { << >> }
    ELSE { g \o rest : g \in Glob(files, possible_extensions[i]),
                       rest \in GlobAll(files, i + 1) }

RECURSIVE UniqueByName(_, _)
\* variant: seen holds f.name, the extension included
UniqueByName(files, seen) ==
    IF files = << >> THEN << >>
    ELSE IF Head(files) \in seen
         THEN UniqueByName(Tail(files), seen)
         ELSE <<Head(files)>> \o UniqueByName(Tail(files), seen \cup {Head(files)})

RECURSIVE Unique(_, _)
\* unique_files: the first file of each stem
Unique(files, seen) ==
    IF files = << >> THEN << >>
    ELSE IF Head(files)[1] \in seen
         THEN Unique(Tail(files), seen)
         ELSE <<Head(files)>> \o Unique(Tail(files), seen \cup {Head(files)[1]})

\* tokens of the modelled texts for which c.isalnum() is false and that are
\* none of ' ', '-', '_'
NotKeptInZipName == IllegalChars \cup {",", "."}

\* playlist_name_safe, "playlist" when nothing is left
PlaylistNameSafe(name) ==
    LET keep(c) == c \notin NotKeptInZipName
        safe == SelectSeq(name, keep)
    IN  IF safe = << >> THEN <<"playlist">> ELSE safe

\* lines 767-831: collect the files, drop duplicates, offer the file or the ZIP
Package ==
    /\ pc = "package"
    /\ \E downloaded_files \in GlobAll(DOMAIN dir, 1) :
         LET unique_files == Unique(downloaded_files, {})
         IN  IF unique_files # << >>
             THEN IF content_type = <<"track">> /\ Len(unique_files) = 1
                  THEN /\ log_area' = append_log(log_area, Ev("successfully_downloaded",
                                                  Len(unique_files), 0, 0, << >>, None))
                       /\ artifact' = [kind |-> "file", entries |-> unique_files,
                                       name |-> unique_files[1]]
                       /\ ui' = "download_file"
                  ELSE /\ log_area' = append_logs(log_area,
                                  << Ev("successfully_downloaded", Len(unique_files),
                                        0, 0, << >>, None),
                                     Ev("creating_zip", 0, 0, 0, << >>, None) >>)
                       /\ artifact' = [kind |-> "zip", entries |-> unique_files,
                                       name |-> PlaylistNameSafe(playlist_name)
                                                \o <<"_songs.zip">>]
                       /\ ui' = "download_zip"
             ELSE /\ ui' = "no_songs"
                  /\ UNCHANGED <<log_area, artifact>>
    /\ pc' = "cleanup"
    /\ UNCHANGED <<session, add_metadata, temp_dir, dir, batch, loop, tagged,
                   tag_call, status_code, sanitizer, summary, extraction>>

\* an exception raised by a statement of the handler's try block (a call of
\* the page's widgets while a line is shown, open() or the ZIP writer):
\* the generator is abandoned and except Exception reports the error
RaiseInTry ==
    /\ pc \in {"gen", "returned", "package"}
    /\ ui' = "download_error"
    /\ log_area' = append_log(log_area, Ev("error", 0, 0, 0, << >>, None))
    /\ pc' = OnException
    /\ idx' = 0
    /\ downloaded' = 0
    /\ skipped' = 0
    /\ failed' = << >>
    /\ tagged' = << >>
    /\ tag_call' = NoTagCall
    /\ ReturnedLocals
    /\ UNCHANGED <<session, add_metadata, temp_dir, dir, artifact, status_code, sanitizer, summary, extraction>>

\* finally: shutil.rmtree(temp_dir); the script run ends and with it the
\* locals of the generator and of the candidate loop
Cleanup ==
    /\ pc = "cleanup"
    /\ temp_dir' = "removed"
    /\ dir' = << >>
    /\ pc' = "idle"
    /\ idx' = 0
    /\ downloaded' = 0
    /\ skipped' = 0
    /\ failed' = << >>
    /\ sources' = << >>
    /\ cand' = 0
    /\ calls' = << >>
    /\ last' = NoLast
    /\ result' = NoResult
    /\ tagged' = << >>
    /\ tag_call' = NoTagCall
    /\ UNCHANGED <<session, log_area, add_metadata, ui, artifact, status_code, sanitizer, summary, extraction>>

Next ==
    \/ FetchBtn
    \/ DownloadBtn
    \/ StartTrack
    \/ Attempt
    \/ TrackOutcome
    \/ Summary
    \/ Package
    \/ RaiseInTry
    \/ Cleanup

Spec == Init /\ [][Next]_vars

(* --------------------- clean_filename on its own ---------------------- *)
\* characters of the texts: a letter, the separator's blank and dash, and
\* three of the characters the pattern removes
Chars == {"a", " ", "-", "?", "/", "*"}

\* the texts clean_filename is given
Texts == SeqsUpTo(Chars, MaxLen)

SanitizerInit ==
    /\ PageInit
    /\ sanitizer \in { [text |-> t, cleaned |-> << >>, again |-> << >>, step |-> 0] :
                        t \in Texts }
    /\ summary = NoSummary
    /\ extraction = NoExtraction

\* clean_filename(text)
CleanText ==
    /\ sanitizer.step = 0
    /\ sanitizer' = [sanitizer EXCEPT !.cleaned = clean_filename(sanitizer.text),
                                      !.step = 1]
    /\ UNCHANGED <<page, summary, extraction>>

\* clean_filename(clean_filename(text))
CleanAgain ==
    /\ sanitizer.step = 1
    /\ sanitizer' = [sanitizer EXCEPT !.again = clean_filename(sanitizer.cleaned),
                                      !.step = 2]
    /\ UNCHANGED <<page, summary, extraction>>

SanitizerNext ==
    \/ CleanText
    \/ CleanAgain

SanitizerSpec == SanitizerInit /\ [][SanitizerNext]_vars

(* ------------------ the generator's closing lines alone --------------- *)
\* longest failure list
MaxFailed == 7

\* the entries of a failure list: f"{artist_name} - {track_name}"
FailedLabels == { ArtistDashName(t) : t \in YoutubeTrackInfos }

\* the counters and the failure list the loop of the generator ends with
SummaryInit ==
    /\ PageInit
    /\ sanitizer = NoText
    /\ summary \in { [downloaded |-> d, skipped |-> k, failed |-> f,
                       lines |-> << >>, step |-> 0] :
                      d \in 0..1, k \in 0..1, f \in SeqsUpTo(FailedLabels, MaxFailed) }
    /\ extraction = NoExtraction

\* lines 606-612
YieldSummary ==
    /\ summary.step = 0
    /\ summary' = [summary EXCEPT
                     !.lines = SummaryLines(summary.downloaded,
                                            summary.downloaded + summary.skipped
                                              + Len(summary.failed),
                                            summary.skipped, summary.failed),
                     !.step = 1]
    /\ UNCHANGED <<page, sanitizer, extraction>>

SummaryNext == YieldSummary

SummarySpec == SummaryInit /\ [][SummaryNext]_vars

(* ----------------- extract_tracks_from_spotify alone ------------------ *)
\* longest list of playlist items
MaxItems == 3

\* track objects the function reads with track.get("name") and
\* track.get("artists", []): one without artists, and one the API lists with
\* an empty name and an artist of empty name
SpotifyBareTracks ==
    { [null |-> FALSE, name |-> <<"a">>, artists |-> << >>, images |-> << >>],
      [null |-> FALSE, name |-> << >>, artists |-> << << >> >>, images |-> << >>] }

\* playlist_data.get("tracks", {}).get("items", [])
ExtractInit ==
    /\ PageInit
    /\ sanitizer = NoText
    /\ summary = NoSummary
    /\ extraction \in { [items |-> it, tracks |-> << >>, step |-> 0] :
                         it \in SeqsUpTo(SpotifyItems \cup SpotifyBareTracks, MaxItems) }

\* tracks = extract_tracks_from_spotify(playlist_data)
Extract ==
    /\ extraction.step = 0
    /\ extraction' = [extraction EXCEPT
                        !.tracks = extract_tracks_from_spotify(extraction.items),
                        !.step = 1]
    /\ UNCHANGED <<page, sanitizer, summary>>

ExtractNext == Extract

ExtractSpec == ExtractInit /\ [][ExtractNext]_vars

(* =============================== claims =============================== *)
\* download_track_multisource is running, or has just returned, for track idx
InCall == pc \in {"attempt", "returned"}

\* the track being processed and its base file name
CurTrack == playlist_tracks[idx]
CurBase == clean_filename(CurTrack.artists \o <<" ", "-", " ">> \o CurTrack.name)

\* the lines of one kind shown so far
Lines(kind) ==
    LET is(e) == e.ev = kind
    IN  SelectSeq(log_area, is)

\* the last subprocess.run left an acceptable file / a file at or below the floor
LastAcceptable == last.outcome = "exit0" /\ last.found # NoFile /\ last.size > 50000
LastUndersized == last.outcome = "exit0" /\ last.found # NoFile /\ last.size <= 50000

(* C1: when download_track_multisource is called and the working directory *)
(* already holds <base>.<ext> with ext in {m4a, mp3, webm, opus}, it       *)
(* returns success with the cache-hit marker (the code's "Already          *)
(* downloaded") and a path of that base in the directory, without having   *)
(* invoked any external process.                                           *)
C1_CacheHit ==
    (InCall /\ calls = << >>
       /\ \E ext \in {"m4a", "mp3", "webm", "opus"} : <<CurBase, ext>> \in DOMAIN dir)
    => /\ pc = "returned"
       /\ result.success
       /\ result.source = "Already downloaded"
       /\ result.file \in DOMAIN dir
       /\ result.file[1] = CurBase

\* a cache hit on a file that is not of the first extension
C1_Witness ==
    /\ pc = "returned"
    /\ calls = << >>
    /\ result.success
    /\ result.file = <<CurBase, "webm">>

(* C2: when download_track_multisource returns failure, the working        *)
(* directory holds no file with the track's base file name.                *)
C2_NoPartialArtifacts ==
    (pc = "returned" /\ ~result.success)
    => \A f \in DOMAIN dir : f[1] # CurBase

(* C3: the external process is invoked once per candidate, in list order;  *)
(* when no candidate is accepted there are exactly len(sources)            *)
(* invocations and the call returns failure with "All sources failed".     *)
C3_Exhaustion ==
    InCall =>
      /\ Len(calls) <= Len(Sources(CurTrack))
      /\ \A i \in 1..Len(calls) : calls[i] = Sources(CurTrack)[i].name
      /\ (pc = "returned" /\ ~result.success)
           => /\ Len(calls) = Len(Sources(CurTrack))
              /\ result.file = NoFile
              /\ result.source = "All sources failed"

\* a track with a direct URL whose six candidates all failed
C3_Witness ==
    /\ pc = "returned"
    /\ ~result.success
    /\ Len(calls) = 6
    /\ calls[1] = "YouTube (Direct)"
    /\ calls[6] = "Soundcloud"

(* C4: after each track downloaded + skipped + len(failed) is the number   *)
(* of tracks processed so far, each processed track has exactly one        *)
(* outcome line counted in its own counter, and at the final summary the   *)
(* three counts sum to the number of tracks.                               *)
C4_BatchAccounting ==
    /\ InCall => downloaded + skipped + Len(failed) = idx - 1
    /\ pc \in {"gen", "package"} =>
         /\ downloaded + skipped + Len(failed) = idx
         /\ Len(Lines("downloaded")) = downloaded
         /\ Len(Lines("skipped")) = skipped
         /\ Len(Lines("failed")) = Len(failed)
    /\ pc = "package" =>
         /\ downloaded + skipped + Len(failed) = Len(playlist_tracks)
         /\ Len(Lines("complete")) = 1
         /\ Lines("complete")[1].a = downloaded
         /\ Lines("complete")[1].c = skipped

\* the summary of a batch of two with one download and one skip
C4_Witness ==
    /\ pc = "package"
    /\ Len(playlist_tracks) = 2
    /\ downloaded = 1
    /\ skipped = 1

(* C5: a track that exhausts its candidates is counted as failed, not as   *)
(* downloaded or skipped, with its "artists - name" appended to the        *)
(* failure list, the generator goes on, and when the batch is over every   *)
(* track has been started, in order.                                       *)
C5_ExhaustionDoesNotAbort ==
    /\ [](pc = "package" =>
            /\ idx = Len(playlist_tracks)
            /\ Len(Lines("processing")) = Len(playlist_tracks)
            /\ \A i \in 1..Len(playlist_tracks) :
                 /\ Lines("processing")[i].a = i
                 /\ Lines("processing")[i].name =
                      playlist_tracks[i].artists \o <<" ", "-", " ">> \o playlist_tracks[i].name)
    /\ [][(pc = "returned" /\ ~result.success /\ ui' = ui)
            => /\ pc' = "gen"
               /\ idx' = idx
               /\ failed' = Append(failed, CurTrack.artists \o <<" ", "-", " ">> \o CurTrack.name)
               /\ downloaded' = downloaded
               /\ skipped' = skipped]_vars

\* the second track is being tried after the first one was exhausted
C5_Witness ==
    /\ pc = "attempt"
    /\ idx = 2
    /\ Len(failed) = 1
    /\ failed[1] = playlist_tracks[1].artists \o <<" ", "-", " ">> \o playlist_tracks[1].name

(* C6: an exception raised while invoking the external tool, other than a  *)
(* timeout, ends the whole run with the error surfaced: the run is in the  *)
(* handler's except/finally path, the candidate loop does not go on and    *)
(* the track is not reported "All sources failed".                         *)
C6_ProcessExceptionIsFatal ==
    last.outcome = "exception" => (pc = "cleanup" /\ ui = "download_error")

C9_FirstAcceptedWins ==
    /\ LastAcceptable =>
         /\ pc = "returned"
         /\ result.success
         /\ result.source = last.src
         /\ result.file = last.found
         /\ result.source = Sources(CurTrack)[last.at].name
         /\ Len(calls) = last.at
    /\ (pc = "returned" /\ result.success /\ result.source # "Already downloaded")
         => LastAcceptable

\* the second candidate was accepted after the first one failed
C9_Witness ==
    /\ pc = "returned"
    /\ result.success
    /\ last.at = 2
    /\ Len(calls) = 2
    /\ result.source = "YouTube (Topic Channel)"

(* C10: when subprocess.run times out the attempt counts as a failed       *)
(* candidate: the loop is at the next candidate, or the call has returned  *)
(* failure after the last one; the handler is not in its except path.      *)
C10_TimeoutRecoverable ==
    last.outcome = "timeout" =>
      /\ ui # "download_error"
      /\ \/ pc = "attempt" /\ cand = last.at + 1
         \/ pc = "returned" /\ ~result.success /\ last.at = Len(Sources(CurTrack))

\* a timed-out attempt left a file behind and the next candidate is up
C10_Witness ==
    /\ pc = "attempt"
    /\ last.outcome = "timeout"
    /\ cand = last.at + 1
    /\ <<CurBase, "m4a">> \in DOMAIN dir

(* C11: when the Spotify API answers a Fetch with HTTP 401 the page shows  *)
(* the authentication error and the run does nothing of a download: no     *)
(* temporary directory, no file, no subprocess.run call, nothing offered   *)
(* for download, and the handler is back at rest.                          *)
C11_AuthErrorNoDownload ==
    status_code = 401 =>
      /\ ui = "auth_error"
      /\ pc = "idle"
      /\ temp_dir = "none"
      /\ dir = << >>
      /\ calls = << >>
      /\ artifact = [kind |-> "None", entries |-> << >>, name |-> << >>]

\* a Fetch answered 401 while the session holds the tracks of an earlier Fetch
C11_Witness ==
    /\ status_code = 401
    /\ ui = "auth_error"
    /\ playlist_tracks # << >>

\* position of an extension in the order the handler globs them
GlobPos(ext) == CHOOSE i \in 1..4 : <<"m4a", "mp3", "webm", "opus">>[i] = ext

(* C12: the entries of a ZIP have pairwise distinct stems, hence pairwise  *)
(* distinct names; each entry is a file of the directory, the first of its *)
(* stem in the order the files were collected (m4a, mp3, webm, opus), and  *)
(* every stem of the directory has its entry.                              *)
C12_DistinctZipEntries ==
    /\ artifact.kind = "zip" =>
         \A i, j \in 1..Len(artifact.entries) :
            artifact.entries[i][1] = artifact.entries[j][1] => i = j
    /\ (pc = "cleanup" /\ artifact.kind = "zip") =>
         /\ \A i \in 1..Len(artifact.entries) :
              /\ artifact.entries[i] \in DOMAIN dir
              /\ \A f \in DOMAIN dir :
                   f[1] = artifact.entries[i][1]
                     => GlobPos(artifact.entries[i][2]) <= GlobPos(f[2])
         /\ \A f \in DOMAIN dir :
              \E i \in 1..Len(artifact.entries) : artifact.entries[i][1] = f[1]

\* a ZIP of one entry made from a directory with two files of the same stem
C12_Witness ==
    /\ pc = "cleanup"
    /\ artifact.kind = "zip"
    /\ Len(artifact.entries) = 1
    /\ artifact.entries[1][2] = "m4a"
    /\ <<artifact.entries[1][1], "webm">> \in DOMAIN dir

\* the outcome lines shown so far, one per finished track, in track order
OutcomeLines ==
    LET is(e) == e.ev \in {"downloaded", "skipped", "failed"}
    IN  SelectSeq(log_area, is)

\* the base file name of the i-th track of the batch
BaseOf(i) ==
    clean_filename(playlist_tracks[i].artists \o <<" ", "-", " ">> \o playlist_tracks[i].name)

(* C13: when a ZIP has been made, every track reported downloaded or       *)
(* skipped has an entry of its base file name, and no entry is the file of *)
(* a track reported failed (an entry whose stem is the base name of failed *)
(* tracks only).                                                           *)
C13_ZipMatchesOutcomes ==
    (pc = "cleanup" /\ artifact.kind = "zip") =>
      LET tracks == 1..Len(playlist_tracks)
          resolved == { i \in tracks : OutcomeLines[i].ev \in {"downloaded", "skipped"} }
          lost == { i \in tracks : OutcomeLines[i].ev = "failed" }
          stems == { artifact.entries[k][1] : k \in 1..Len(artifact.entries) }
      IN  /\ \A i \in resolved : BaseOf(i) \in stems
          /\ \A i \in lost :
               BaseOf(i) \in stems => \E j \in resolved : BaseOf(j) = BaseOf(i)

IsProcessing(e) == e.ev = "processing"
IsOutcome(e) == e.ev \in {"downloaded", "skipped", "failed"}
\* how many of the first n lines shown are "Processing" lines, outcome lines
ProcessingBefore(n) == Cardinality({ k \in 1..n : IsProcessing(log_area[k]) })
OutcomesBefore(n) == Cardinality({ k \in 1..n : IsOutcome(log_area[k]) })

(* C14: while a batch runs, the "Processing [i/N]" lines are those of the  *)
(* tracks 1..idx in order; while download_track_multisource runs for track *)
(* idx its "Processing" line is the last line shown, so it precedes every  *)
(* subprocess.run of that track; every finished track has exactly one      *)
(* outcome line (Downloaded, Skipped or Failed), after its "Processing"    *)
(* line and before the "Processing" line of the next track.                *)
C14_ProgressInOrder ==
    pc \in {"gen", "attempt", "returned", "package"} =>
      /\ Len(Lines("processing")) = idx
      /\ \A i \in 1..idx :
           /\ Lines("processing")[i].a = i
           /\ Lines("processing")[i].b = Len(playlist_tracks)
      /\ Len(OutcomeLines) = IF pc \in {"attempt", "returned"} THEN idx - 1 ELSE idx
      /\ pc \in {"attempt", "returned"} =>
           /\ log_area[Len(log_area)].ev = "processing"
           /\ log_area[Len(log_area)].a = idx
      /\ \A j \in 1..Len(log_area) :
           /\ IsProcessing(log_area[j])
                => OutcomesBefore(j - 1) = log_area[j].a - 1
           /\ IsOutcome(log_area[j])
                => ProcessingBefore(j - 1) = OutcomesBefore(j - 1) + 1

\* both tracks of a batch have their outcome line: a download, then a failure
C14_Witness ==
    /\ pc = "gen"
    /\ idx = 2
    /\ Len(OutcomeLines) = 2
    /\ OutcomeLines[1].ev = "downloaded"
    /\ OutcomeLines[2].ev = "failed"

(* C15: clean_filename never returns the empty string: for every text,     *)
(* also one made only of characters it removes, the result is non-empty.   *)
C15_NeverEmpty ==
    sanitizer.step >= 1 => sanitizer.cleaned # << >>

(* C16: clean_filename is idempotent, clean_filename(clean_filename(s)) =  *)
(* clean_filename(s), and its result holds none of < > : " / \ | ? *       *)
C16_Idempotent ==
    /\ sanitizer.step >= 1 =>
         \A i \in 1..Len(sanitizer.cleaned) :
            sanitizer.cleaned[i] \notin {"<", ">", ":", "\"", "/", "\\", "|", "?", "*"}
    /\ sanitizer.step = 2 => sanitizer.again = sanitizer.cleaned

\* a text with two removed characters around a kept one, cleaned twice
C16_Witness ==
    /\ sanitizer.step = 2
    /\ sanitizer.text = <<"?", "a", "*">>
    /\ sanitizer.cleaned = <<"a">>
    /\ sanitizer.again = <<"a">>

\* the record of the track being processed carries a direct URL
HasDirectUrl == CurTrack.youtube_url # << >>

(* C17 as stated: for a track record with a direct URL the first candidate *)
(* tried is that URL and no search-based candidate is tried for the track. *)
C17_DirectUrlOnly ==
    (pc \in {"attempt", "returned"} /\ HasDirectUrl) =>
      /\ calls # << >> => calls[1] = "YouTube (Direct)"
      /\ \A i \in 1..Len(calls) : calls[i] = "YouTube (Direct)"

(* C17, amended: for a track record with a direct URL the first candidate  *)
(* of the list is that URL and it is the first one tried, before any       *)
(* search-based candidate; the search-based candidates follow it in the    *)
(* list and are tried when, and only when, the direct URL was not the      *)
(* accepted candidate.                                                     *)
C17_DirectUrlFirst ==
    (pc \in {"attempt", "returned"} /\ HasDirectUrl) =>
      /\ pc = "attempt" =>
           /\ sources[1].name = "YouTube (Direct)"
           /\ sources[1].url = CurTrack.youtube_url
           /\ \A i \in 2..Len(sources) :
                sources[i].url[1] \in {"ytsearch1:", "scsearch1:"}
           /\ cand >= 2 => (Len(calls) = cand - 1 /\ Len(sources) = 6)
      /\ calls # << >> => calls[1] = "YouTube (Direct)"
      /\ \A i \in 2..Len(calls) : calls[i] # "YouTube (Direct)"
      /\ (pc = "returned" /\ result.source = "YouTube (Direct)") => Len(calls) = 1
      /\ Len(calls) >= 2 => result.source # "YouTube (Direct)"

\* the direct URL was tried and not accepted, the first search is up
C17_Witness ==
    /\ pc = "attempt"
    /\ HasDirectUrl
    /\ calls = <<"YouTube (Direct)">>
    /\ cand = 2
    /\ sources[cand].name = "YouTube Music (Official Audio)"

(* C18: whenever download_track_multisource has returned success, by a     *)
(* fresh download or by a cache hit, the returned path is a file of the    *)
(* working directory and its size exceeds the floor of 50000 bytes.        *)
C18_SuccessImpliesValidFile ==
    (pc = "returned" /\ result.success) =>
      /\ result.file \in DOMAIN dir
      /\ dir[result.file] > 50000

(* C19: the candidate list is the direct URL, when the record has one,     *)
(* then the four YouTube searches "official audio", "topic", "provided to  *)
(* youtube" and "audio" in that order, then the SoundCloud search as the   *)
(* last one: five or six candidates, fixed by the track record.            *)
C19_CandidateList ==
    pc = "attempt" =>
      LET search == <<"YouTube Music (Official Audio)", "YouTube (Topic Channel)",
                      "YouTube (Provided to YouTube)", "YouTube (Audio)", "Soundcloud">>
          phrasing == <<" official audio", " topic", " provided to youtube", " audio">>
          names == [i \in 1..Len(sources) |-> sources[i].name]
          first == Len(sources) - 5
      IN  /\ Len(sources) = IF HasDirectUrl THEN 6 ELSE 5
          /\ names = IF HasDirectUrl THEN <<"YouTube (Direct)">> \o search ELSE search
          /\ HasDirectUrl => sources[1].url = CurTrack.youtube_url
          /\ \A k \in 1..4 :
               /\ sources[first + k].url[1] = "ytsearch1:"
               /\ sources[first + k].url[Len(sources[first + k].url)] = phrasing[k]
          /\ sources[Len(sources)].url[1] = "scsearch1:"
          /\ sources[Len(sources)].url =
                <<"scsearch1:">> \o CurTrack.artists \o <<" ">> \o CurTrack.name

\* a track without a direct URL whose four YouTube searches failed: the
\* SoundCloud search, fifth and last of the list, is up
C19_Witness ==
    /\ pc = "attempt"
    /\ ~HasDirectUrl
    /\ Len(sources) = 5
    /\ cand = 5
    /\ Len(calls) = 4
    /\ sources[cand].name = "Soundcloud"

(* C20: after a failed attempt of any kind (non-zero exit, missing file,   *)
(* undersized file, timeout or exception) the loop has paused before it    *)
(* invokes the next candidate of the same track.                           *)
C20_Backoff ==
    (pc = "attempt" /\ last.at >= 1) => last.slept

\* the lines of the iteration the generator is in: those shown after the
\* last "Processing" line
IterLines ==
    LET at == { k \in 1..Len(log_area) : IsProcessing(log_area[k]) }
        from == IF at = {} THEN 0 ELSE CHOOSE k \in at : \A j \in at : j <= k
    IN  SubSeq(log_area, from + 1, Len(log_area))
HasLine(kind) == \E k \in 1..Len(IterLines) : IterLines[k].ev = kind

\* the iteration of track idx counted the track as downloaded and is over:
\* the accepted file is in the directory, the "Progress" line has been
\* yielded and the generator is at the head of its loop, no error shown
DownloadedAndGoingOn ==
    /\ pc = "gen"
    /\ ui # "download_error"
    /\ HasLine("downloaded")
    /\ ~HasLine("failed")
    /\ ~HasLine("skipped")
    /\ downloaded >= 1
    /\ Len(Lines("downloaded")) = downloaded
    /\ downloaded + skipped + Len(failed) = idx
    /\ IterLines[Len(IterLines)].ev = "progress"
    /\ IterLines[Len(IterLines)].a = downloaded
    /\ tag_call.file \in DOMAIN dir
    /\ tag_call.file[1] = BaseOf(idx)
    /\ dir[tag_call.file] > 50000

(* C21 as stated: when add_metadata_to_file returned False, or the cover   *)
(* download failed, for a freshly downloaded track, the track is counted   *)
(* as downloaded, its file stays, the "Metadata failed" warning is yielded *)
(* and the batch goes on.                                                  *)
C21_TaggingFailureWarns ==
    (tag_call.called /\ (~tag_call.returned \/ tag_call.cover = "failed"))
      => (DownloadedAndGoingOn /\ HasLine("metadata_failed"))

(* C21, amended: tagging is never fatal: after add_metadata_to_file was    *)
(* called the track is counted as downloaded, its file stays and the batch *)
(* goes on, whatever it returned and whether or not the cover download     *)
(* failed; the "Metadata failed" warning is yielded exactly when           *)
(* add_metadata_to_file returned False, and a failed cover download alone  *)
(* yields "Metadata added".                                                *)
C21_TaggingNonFatal ==
    tag_call.called =>
      /\ DownloadedAndGoingOn
      /\ HasLine("tagging")
      /\ HasLine("metadata_failed") <=> ~tag_call.returned
      /\ HasLine("metadata_added") <=> tag_call.returned

\* the first track of two was downloaded, its cover download failed and
\* add_metadata_to_file returned False
C21_Witness ==
    /\ tag_call.called
    /\ ~tag_call.returned
    /\ tag_call.cover = "failed"
    /\ idx = 1
    /\ Len(playlist_tracks) = 2
    /\ HasLine("metadata_failed")

\* the closing lines of one kind
SummaryOf(kind) ==
    LET is(e) == e.ev = kind
    IN  SelectSeq(summary.lines, is)

(* C22: the closing failure line names at most 5 failed tracks, the first  *)
(* 5 of the failure list in order; when more than 5 tracks failed exactly  *)
(* one "... and k more" line follows it, with k = len(failed) - 5; when 5  *)
(* or fewer failed there is no such line, and when none failed there is no *)
(* failure line at all.                                                    *)
C22_FailureListCapped ==
    summary.step = 1 =>
      LET f == summary.failed
          shown == SummaryOf("failed_tracks")
          more == SummaryOf("more")
          n == Len(summary.lines)
      IN  /\ f = << >> => (shown = << >> /\ more = << >> /\ n = 1)
          /\ f # << >> =>
               /\ Len(shown) = 1
               /\ summary.lines[2] = shown[1]
               /\ shown[1].a = Len(f)
               /\ Len(shown[1].name) = IF Len(f) < 5 THEN Len(f) ELSE 5
               /\ \A i \in 1..Len(shown[1].name) : shown[1].name[i] = f[i]
          /\ Len(f) > 5 =>
               /\ Len(more) = 1
               /\ n = 3
               /\ summary.lines[3] = more[1]
               /\ more[1].a = Len(f) - 5
          /\ Len(f) <= 5 => more = << >>

\* seven failed tracks: five are named and "... and 2 more" follows
C22_Witness ==
    /\ summary.step = 1
    /\ Len(summary.failed) = 7
    /\ Len(summary.lines) = 3
    /\ Len(summary.lines[2].name) = 5
    /\ summary.lines[3].ev = "more"
    /\ summary.lines[3].a = 2

\* the items of the playlist whose track object is not null, in order
NonNullItems ==
    LET has(item) == ~item.null
    IN  SelectSeq(extraction.items, has)

(* C23: extract_tracks_from_spotify returns, in playlist order, one record *)
(* for each item whose track object is not null and none for the others,   *)
(* and every record has a non-empty name and non-empty artists.            *)
C23_ExtractionWellFormed ==
    extraction.step = 1 =>
      /\ Len(extraction.tracks) = Len(NonNullItems)
      /\ \A k \in 1..Len(extraction.tracks) :
           /\ extraction.tracks[k].name = NonNullItems[k].name
           /\ extraction.tracks[k].source = "spotify"
           /\ extraction.tracks[k].name # << >>
           /\ extraction.tracks[k].artists # << >>

\* what the page shows after a Fetch that failed: an HTTP error or another
\* exception, an unsupported URL, a YouTube playlist fetch without result
FailedFetchShown == {"auth_error", "api_error", "error", "unsupported_url", "youtube_failed"}

\* a Download click that is not refused
DownloadStarts == DownloadBtn /\ pc' = "gen"

(* C24: a Fetch that fails (HTTP error, unsupported URL, YouTube fetch     *)
(* without result) leaves playlist_tracks, playlist_name and content_type  *)
(* as they were; when the session holds tracks, a Download click after it  *)
(* is not refused, and the run it starts has the session unchanged, so it  *)
(* processes the tracks of the earlier Fetch.                              *)
C24_FailedFetchKeepsSession ==
    /\ [][ui' \in FailedFetchShown => session' = session]_vars
    /\ [][(pc = "idle" /\ pc' = "gen") => session' = session]_vars
    /\ []((pc = "idle" /\ ui \in FailedFetchShown /\ playlist_tracks # << >>)
            => ENABLED DownloadStarts)

\* an unsupported URL was fetched while the session holds a playlist of two
C24_Witness ==
    /\ pc = "idle"
    /\ ui = "unsupported_url"
    /\ Len(playlist_tracks) = 2
    /\ content_type = <<"playlist">>

\* the finished tracks whose outcome line is "Downloaded from ...", and the
\* k-th of them in batch order
DownloadedTracks == { i \in 1..Len(OutcomeLines) : OutcomeLines[i].ev = "downloaded" }
NthDownloaded(k) ==
    CHOOSE i \in DownloadedTracks : Cardinality({ j \in DownloadedTracks : j <= i }) = k

(* C25: in a batch add_metadata_to_file is called once for each track that *)
(* a candidate downloaded in this run, in batch order, when add_metadata   *)
(* is set, and not at all when it is not set; no file is tagged twice, and *)
(* a track resolved by a cache hit (also one whose cleaned name collides   *)
(* with an earlier track) or reported failed is not tagged: every          *)
(* "Adding album cover and metadata" line comes right after a "Downloaded" *)
(* line.                                                                   *)
C25_TagOncePerDownload ==
    pc \in {"gen", "attempt", "returned", "package"} =>
      /\ Len(tagged) = IF add_metadata THEN Cardinality(DownloadedTracks) ELSE 0
      /\ Len(Lines("tagging")) = Len(tagged)
      /\ \A k \in 1..Len(tagged) :
           /\ tagged[k][1] = BaseOf(NthDownloaded(k))
           /\ tagged[k] \in DOMAIN dir
           /\ dir[tagged[k]] > 50000
      /\ \A j, k \in 1..Len(tagged) : tagged[j] = tagged[k] => j = k
      /\ \A n \in 1..Len(log_area) :
           log_area[n].ev = "tagging" => (n > 1 /\ log_area[n - 1].ev = "downloaded")

\* the second track of the batch was a cache hit on the file of the first,
\* which was downloaded and tagged: one call of add_metadata_to_file
C25_Witness ==
    /\ pc = "gen"
    /\ idx = 2
    /\ add_metadata
    /\ Len(OutcomeLines) = 2
    /\ OutcomeLines[1].ev = "downloaded"
    /\ OutcomeLines[2].ev = "skipped"
    /\ Len(tagged) = 1
    /\ BaseOf(1) = BaseOf(2)

====
